---- MODULE Spec2Model ----
(***************************************************************************)
(* Browser-probe scripts of siftersearch (Playwright, sync API).           *)
(*                                                                         *)
(* Every script is a straight-line Python program that launches a browser, *)
(* drives one page and prints a verdict.  A script is modelled as a table  *)
(* from source line to the statement at that line; the actions below are   *)
(* the statement kinds.  The page under test is the environment: what a    *)
(* selector matches is drawn when the script first looks at it and is      *)
(* forgotten whenever the script lets time pass or interacts.              *)
(***************************************************************************)
EXTENDS Integers, Sequences, FiniteSets, TLC

VARIABLES run, fs, dirs, site

vars == <<run, fs, dirs, site>>

(* ---------------------------------------------------------------- bounds *)
MaxMatch == 2      \* most elements a selector matches
MaxMarks == 2      \* most <mark> tags in page.content()
MaxParas == 2      \* most paragraphs returned by the line-height evaluate

Runs == {1, 2}

(* ------------------------------------------------------- statement table *)
Stp == [op |-> "", sel |-> "", nth |-> 0, strict |-> FALSE, t |-> 0,
        path |-> "", nxt |-> 0, alt |-> 0, exc |-> 0, tag |-> ""]

Op(o, nx)           == [Stp EXCEPT !.op = o, !.nxt = nx]
Timed(o, ms, nx)    == [Stp EXCEPT !.op = o, !.t = ms, !.nxt = nx]
WaitFor(s, ms, nx)  == [Stp EXCEPT !.op = "wait_sel", !.sel = s, !.t = ms, !.nxt = nx]
ShotSameName(p, nx) == [Stp EXCEPT !.op = "shot", !.path = "{output_dir}/study-view.png", !.nxt = nx]
Shot(p, nx)         == [Stp EXCEPT !.op = "shot", !.path = p, !.nxt = nx]
WriteFile(p, nx)    == [Stp EXCEPT !.op = "write", !.path = p, !.nxt = nx]
OnFirst(o, s, nx)   == [Stp EXCEPT !.op = o, !.sel = s, !.nxt = nx]
OnOnly(o, s, nx)    == [Stp EXCEPT !.op = o, !.sel = s, !.strict = TRUE, !.nxt = nx]
OnLoop(o, s, nx)    == [Stp EXCEPT !.op = o, !.sel = s, !.nth = -1, !.nxt = nx]
Br(o, s, nx, el)    == [Stp EXCEPT !.op = o, !.sel = s, !.nxt = nx, !.alt = el]
Say(tg, nx)         == [Stp EXCEPT !.op = "print", !.tag = tg, !.nxt = nx]
Ret(v)              == [Stp EXCEPT !.op = "return", !.tag = v]
Try(st, h)          == [st EXCEPT !.exc = h]

(* ------------------------------------------------------------- programs *)
(* A table maps the source line of a statement to the statement.  nxt is   *)
(* the line executed next (0: the function body ends), alt the line taken  *)
(* when a test is false or a loop is exhausted, exc the line of the except *)
(* clause that encloses the statement (0: none encloses it).  Statements   *)
(* that only build a lazy locator or print progress are not steps.         *)

\* src/scripts/test-dark-mode.py
test_dark_mode ==
     11 :> Op("makedirs", 14)
  @@ 14 :> Op("enter", 15)
  @@ 15 :> Op("launch", 17)
  @@ 17 :> Op("new_page", 23)
  @@ 23 :> Op("goto", 24)
  @@ 24 :> Op("wait_load", 25)
  @@ 25 :> Timed("sleep", 2000, 27)
  @@ 27 :> Shot("/tmp/siftersearch-screenshots/30-dark-homepage.png", 31)
  @@ 31 :> OnFirst("fill", "input.search-input", 32)
  @@ 32 :> OnFirst("press", "input.search-input", 35)
  @@ 35 :> Timed("sleep", 10000, 38)
  @@ 38 :> OnFirst("all", ".source-card", 41)
  @@ 41 :> Br("ifn", "", 43, 54)
  @@ 43 :> OnFirst("click", ".source-card", 44)
  @@ 44 :> Timed("sleep", 1000, 46)
  @@ 46 :> Shot("/tmp/siftersearch-screenshots/31-dark-expanded-card.png", 50)
  @@ 50 :> Br("ifcount", ".source-paper", 51, 54)
  @@ 51 :> OnFirst("read", ".source-paper", 54)
  @@ 54 :> Op("close", 55)
  @@ 55 :> Say("complete", 0)

\* src/tests/test_highlighting.py; the selector waited for at line 25 is a
\* list ending in 'input', so it matches exactly when 'input' (line 28) does
test_highlighting ==
     90 :> Op("makedirs", 12)
  @@ 12 :> Op("enter", 13)
  @@ 13 :> Op("launch", 14)
  @@ 14 :> Op("new_page", 17)
  @@ 17 :> Op("goto", 18)
  @@ 18 :> Op("wait_load", 21)
  @@ 21 :> Shot("/tmp/siftersearch-screenshots/01-initial.png", 25)
  @@ 25 :> WaitFor("input", 10000, 30)
  @@ 30 :> OnFirst("fill", "input", 33)
  @@ 33 :> OnFirst("press", "input", 38)
  @@ 38 :> Timed("sleep", 8000, 41)
  @@ 41 :> Shot("/tmp/siftersearch-screenshots/02-search-results.png", 45)
  @@ 45 :> Op("content_marks", 66)
  @@ 66 :> Try(OnFirst("all", ".source-card, .hit-card, [class*=result]", 67), 75)
  @@ 67 :> Br("ifn", "", 70, 79)
  @@ 70 :> Try(OnFirst("click", ".source-card, .hit-card, [class*=result]", 71), 75)
  @@ 71 :> Try(Timed("sleep", 1000, 72), 75)
  @@ 72 :> Try(Shot("/tmp/siftersearch-screenshots/03-expanded-result.png", 79), 75)
  @@ 75 :> Say("could_not_expand", 79)
  @@ 79 :> Op("verdict", 85)
  @@ 85 :> Op("close", 86)
  @@ 86 :> Ret("expr")

\* src/tests/test_highlight_all.py
test_highlighting_all ==
     89 :> Op("makedirs", 12)
  @@ 12 :> Op("enter", 13)
  @@ 13 :> Op("launch", 14)
  @@ 14 :> Op("new_page", 17)
  @@ 17 :> Op("goto", 18)
  @@ 18 :> Op("wait_load", 21)
  @@ 21 :> WaitFor("input", 10000, 26)
  @@ 26 :> OnFirst("fill", "input", 29)
  @@ 29 :> OnFirst("press", "input", 33)
  @@ 33 :> Timed("sleep", 10000, 36)
  @@ 36 :> OnFirst("all", ".source-card", 40)
  @@ 40 :> Br("for", "", 42, 48)
  @@ 42 :> Try(OnLoop("click", ".source-card", 43), 45)
  @@ 43 :> Try(Timed("sleep", 500, 40), 45)
  @@ 45 :> Op("pass", 40)
  @@ 48 :> Timed("sleep", 1000, 51)
  @@ 51 :> Shot("/tmp/siftersearch-screenshots/04-all-expanded.png", 55)
  @@ 55 :> Op("content_marks", 76)
  @@ 76 :> Op("verdict", 84)
  @@ 84 :> Op("close", 85)
  @@ 85 :> Ret("expr")

\* an early return that leaves the browser as it is
ReturnWithoutClose(tg, at) ==
     at     :> Say(tg, at + 2)
  @@ at + 2 :> Ret("None")

\* src/test-output/verify_line_height.py lines 27-30 and 36-39, the else
\* branches: print(...); browser.close(); return
EarlyReturn(tg, at) ==
     at     :> Say(tg, at + 1)
  @@ at + 1 :> Op("close", at + 2)
  @@ at + 2 :> Ret("None")

\* src/test-output/verify_line_height.py
verify_line_height ==
      8 :> Op("enter", 9)
  @@  9 :> Op("launch", 10)
  @@ 10 :> Op("new_page", 16)
  @@ 16 :> Op("goto", 19)
  @@ 19 :> Timed("sleep", 3000, 23)
  @@ 23 :> Br("ifcount", "[data-tooltip=Side-by-side]", 25, 28)
  @@ 25 :> OnOnly("click", "[data-tooltip=Side-by-side]", 26)
  @@ 26 :> Timed("sleep", 2000, 34)
  @@ EarlyReturn("no_sbs_button", 28)
  @@ 34 :> Br("ifcount", ".translation-col", 42, 37)
  @@ EarlyReturn("no_translation_col", 37)
  @@ 42 :> Op("eval_lh", 75)
  @@ 75 :> Op("verdict", 96)
  @@ 96 :> Op("close", 0)

\* src/scripts/test-mobile.py
test_mobile ==
     10 :> Op("makedirs", 13)
  @@ 13 :> Op("enter", 14)
  @@ 14 :> Op("launch", 17)
  @@ 17 :> Op("new_page", 26)
  @@ 26 :> Op("on", 27)
  @@ 27 :> Op("on", 30)
  @@ 30 :> Op("goto", 31)
  @@ 31 :> Op("wait_load", 35)
  @@ 35 :> Try(WaitFor(".stats-card", 10000, 52), 38)
  @@ 38 :> Say("stats_timeout", 40)
  @@ 40 :> Timed("sleep", 2000, 52)
  @@ 52 :> Shot("/tmp/siftersearch-screenshots/60-mobile-small.png", 57)
  @@ 57 :> Br("ifcount", ".stats-card", 58, 68)
  @@ 58 :> OnFirst("read_bbox", ".stats-card", 59)
  @@ 59 :> Br("ifbbox", "", 61, 66)
  @@ 61 :> Op("verdict", 71)
  @@ 66 :> Say("null_bbox", 71)
  @@ 68 :> Say("stats_not_found", 71)
  @@ 71 :> Br("ifhtml", "", 75, 98)
  @@ 75 :> Op("eval", 98)
  @@ 98 :> Shot("/tmp/siftersearch-screenshots/60-mobile-small-full.png", 102)
  @@ 102 :> Op("eval", 103)
  @@ 103 :> Timed("sleep", 1000, 104)
  @@ 104 :> Shot("/tmp/siftersearch-screenshots/60-mobile-small-scrolled.png", 108)
  @@ 108 :> Op("new_page", 113)
  @@ 113 :> Op("goto", 114)
  @@ 114 :> Op("wait_load", 116)
  @@ 116 :> Shot("/tmp/siftersearch-screenshots/61-mobile-standard.png", 119)
  @@ 119 :> Op("close", 120)
  @@ 120 :> Say("complete", 0)

\* the handler registered on a page whose browser is closed already
CloseThenListen ==
     66 :> Op("close", 68)
  @@ 68 :> Op("on", 70)
  @@ 70 :> Say("complete", 0)

\* src/scripts/test-ui.py lines 64-70: page.on("console", ...) and then
\* browser.close()
ListenThenClose ==
     66 :> Op("on", 68)
  @@ 68 :> Op("close", 70)
  @@ 70 :> Say("complete", 0)

\* src/scripts/test-ui.py
test_siftersearch ==
     15 :> Op("makedirs", 18)
  @@ 18 :> Op("enter", 19)
  @@ 19 :> Op("launch", 20)
  @@ 20 :> Op("new_page", 24)
  @@ 24 :> Op("goto", 25)
  @@ 25 :> Op("wait_load", 26)
  @@ 26 :> Shot("/tmp/siftersearch-screenshots/01-homepage.png", 30)
  @@ 30 :> Op("page_read", 37)
  @@ 37 :> OnOnly("fill", "input[type=search], input.search-input", 38)
  @@ 38 :> OnOnly("press", "input[type=search], input.search-input", 41)
  @@ 41 :> Timed("sleep", 8000, 42)
  @@ 42 :> Shot("/tmp/siftersearch-screenshots/02-search-results.png", 46)
  @@ 46 :> OnFirst("count", ".hit-card, [class*=hit], [class*=result]", 50)
  @@ 50 :> Shot("/tmp/siftersearch-screenshots/03-hit-cards-detail.png", 56)
  @@ 56 :> Br("ifcount", "button:has-text(Read), [class*=expand], [class*=read]", 57, 62)
  @@ 57 :> OnFirst("click", "button:has-text(Read), [class*=expand], [class*=read]", 58)
  @@ 58 :> Timed("sleep", 1000, 59)
  @@ 59 :> Shot("/tmp/siftersearch-screenshots/04-reading-mode.png", 66)
  @@ 62 :> Say("no_expand_button", 66)
  @@ ListenThenClose

\* src/scripts/test-read-more.py
test_read_more ==
     11 :> Op("makedirs", 14)
  @@ 14 :> Op("enter", 15)
  @@ 15 :> Op("launch", 16)
  @@ 16 :> Op("new_page", 21)
  @@ 21 :> Op("goto", 22)
  @@ 22 :> Op("wait_load", 23)
  @@ 23 :> Timed("sleep", 2000, 25)
  @@ 25 :> Shot("/tmp/siftersearch-screenshots/50-initial.png", 29)
  @@ 29 :> OnFirst("fill", "input.search-input", 30)
  @@ 30 :> OnFirst("press", "input.search-input", 33)
  @@ 33 :> Timed("sleep", 3000, 34)
  @@ 34 :> Shot("/tmp/siftersearch-screenshots/51-after-search.png", 37)
  @@ 37 :> Timed("sleep", 15000, 38)
  @@ 38 :> Shot("/tmp/siftersearch-screenshots/52-after-wait.png", 41)
  @@ 41 :> OnFirst("all", ".source-card", 45)
  @@ 45 :> OnFirst("count", ".results-container", 48)
  @@ 48 :> OnFirst("count", ".message-row", 51)
  @@ 51 :> Br("ifn", "", 53, 111)
  @@ 53 :> OnFirst("click", ".source-card", 54)
  @@ 54 :> Timed("sleep", 1000, 56)
  @@ 56 :> Shot("/tmp/siftersearch-screenshots/53-expanded.png", 61)
  @@ 61 :> Br("ifcount", ".read-more-btn", 63, 109)
  @@ 63 :> OnFirst("click", ".read-more-btn", 64)
  @@ 64 :> Timed("sleep", 2000, 66)
  @@ 66 :> Shot("/tmp/siftersearch-screenshots/54-reader-modal.png", 71)
  @@ 71 :> Br("ifcount", ".reader-modal", 75, 107)
  @@ 75 :> OnFirst("count", ".reader-paragraph", 80)
  @@ 80 :> OnFirst("count", ".reader-loading", 84)
  @@ 84 :> OnFirst("count", ".reader-empty", 89)
  @@ 89 :> Br("ifprop", ".reader-nav-btn", 91, 98)
  @@ 91 :> OnFirst("click", ".reader-nav-btn", 92)
  @@ 92 :> Timed("sleep", 500, 93)
  @@ 93 :> Shot("/tmp/siftersearch-screenshots/55-reader-nav.png", 98)
  @@ 98 :> Op("kpress", 99)
  @@ 99 :> Timed("sleep", 500, 102)
  @@ 102 :> Br("ifcount", ".reader-modal", 105, 103)
  @@ 103 :> Say("reader_closed", 113)
  @@ 105 :> Say("reader_not_closed", 113)
  @@ 107 :> Say("modal_not_open", 113)
  @@ 109 :> Say("no_read_more", 113)
  @@ 111 :> Say("no_source_cards", 113)
  @@ 113 :> Op("close", 114)
  @@ 114 :> Say("complete", 0)

\* src/test-output/test_sbs_final.py
test_sbs_final ==
      8 :> Op("enter", 9)
  @@  9 :> Op("launch", 10)
  @@ 10 :> Op("new_page", 16)
  @@ 16 :> Op("goto", 21)
  @@ 21 :> Try(WaitFor(".document-header, .prose-container, .paragraph-row", 15000, 26), 24)
  @@ 24 :> Say("content_timeout", 26)
  @@ 26 :> Timed("sleep", 2000, 27)
  @@ 27 :> Shot("test-output/sbs_test1.png", 31)
  @@ 31 :> Op("eval", 52)
  @@ 52 :> Br("ifprop", "button[data-tooltip*=Side], button[data-tooltip*=side]", 54, 104)
  @@ 54 :> OnFirst("click", "button[data-tooltip*=Side], button[data-tooltip*=side]", 55)
  @@ 55 :> Timed("sleep", 2000, 57)
  @@ 57 :> Shot("test-output/sbs_test2.png", 61)
  @@ 61 :> Op("eval_lh", 88)
  @@ 88 :> Op("verdict", 107)
  @@ 104 :> Say("no_sbs_button", 105)
  @@ 105 :> Shot("test-output/sbs_no_button.png", 107)
  @@ 107 :> Op("close", 0)

\* src/test-output/test_production.py
test_production ==
      8 :> Op("enter", 9)
  @@  9 :> Op("launch", 10)
  @@ 10 :> Op("new_page", 17)
  @@ 17 :> Op("goto", 18)
  @@ 18 :> Timed("sleep", 3000, 21)
  @@ 21 :> Shot("test-output/test1_initial.png", 26)
  @@ 26 :> OnFirst("count", ".document-content, .prose-container, article", 29)
  @@ 29 :> Op("eval", 45)
  @@ 45 :> Br("ifcount", "button[data-tooltip*=Side], button[aria-label*=Side], ...", 47, 95)
  @@ 47 :> OnFirst("click", "button[data-tooltip*=Side], button[aria-label*=Side], ...", 48)
  @@ 48 :> Timed("sleep", 2000, 49)
  @@ 49 :> Shot("test-output/test2_sbs_mode.png", 53)
  @@ 53 :> Op("eval_lh", 80)
  @@ 80 :> Op("verdict", 99)
  @@ 95 :> Say("no_sbs_button", 97)
  @@ 97 :> Shot("test-output/test_no_sbs.png", 99)
  @@ 99 :> Op("close", 0)

\* src/test-output/test_user_url.py
test_user_url ==
      8 :> Op("enter", 9)
  @@  9 :> Op("launch", 10)
  @@ 10 :> Op("new_page", 15)
  @@ 15 :> Op("goto", 16)
  @@ 16 :> Timed("sleep", 5000, 18)
  @@ 18 :> Shot("test-output/user_url_1.png", 23)
  @@ 23 :> Br("ifcount", "button:has-text(SBS)", 25, 66)
  @@ 25 :> OnFirst("click", "button:has-text(SBS)", 26)
  @@ 26 :> Timed("sleep", 2000, 27)
  @@ 27 :> Shot("test-output/user_url_2_sbs.png", 31)
  @@ 31 :> Op("eval_lh", 52)
  @@ 52 :> Op("verdict", 68)
  @@ 66 :> Say("no_sbs_button", 68)
  @@ 68 :> Op("close", 0)

\* src/tests/test_print_view.py; line 64 resolves the loop bound once, line
\* 65 is the head of the loop over range(min(3, count))
test_print_study_view ==
      9 :> Op("enter", 10)
  @@ 10 :> Op("launch", 11)
  @@ 11 :> Op("new_page", 18)
  @@ 18 :> Op("goto", 19)
  @@ 19 :> Op("wait_load", 22)
  @@ 22 :> Timed("sleep", 3000, 26)
  @@ 26 :> Shot("tests/print_study_view.png", 30)
  @@ 30 :> Op("content_flags", 33)
  @@ 33 :> Br("iferror", "", 34, 46)
  @@ 34 :> Say("ERROR_STATE", 35)
  @@ 35 :> OnOnly("read", ".error-message", 37)
  @@ 37 :> Op("close", 38)
  @@ 38 :> Ret("False")
  @@ 46 :> Br("ifcount", ".document-title", 47, 50)
  @@ 47 :> OnFirst("read", ".document-title", 53)
  @@ 50 :> Say("no_title", 53)
  @@ 53 :> Br("ifcount", ".segment-table", 59, 71)
  @@ 59 :> OnFirst("count", ".segment-row", 62)
  @@ 62 :> Br("ifcount", ".segment-row", 64, 79)
  @@ 64 :> OnFirst("range", ".segment-row", 65)
  @@ 65 :> Br("for", "", 66, 79)
  @@ 66 :> OnOnly("read", ".segment-row .segment-num", 67)
  @@ 67 :> OnOnly("read", ".segment-row .segment-original", 68)
  @@ 68 :> OnOnly("read", ".segment-row .segment-translation", 65)
  @@ 71 :> Say("no_segment_tables", 75)
  @@ 75 :> OnFirst("count", ".fallback-content", 79)
  @@ 79 :> Br("ifcount", ".qr-image", 81, 83)
  @@ 81 :> Say("qr_yes", 85)
  @@ 83 :> Say("qr_no", 85)
  @@ 85 :> Op("close", 86)
  @@ 86 :> Say("complete", 87)
  @@ 87 :> Ret("True")

\* src/scripts/test-paper-fix.py
test_paper_fix ==
     11 :> Op("makedirs", 14)
  @@ 14 :> Op("enter", 15)
  @@ 15 :> Op("launch", 18)
  @@ 18 :> Op("new_page", 24)
  @@ 24 :> Op("goto", 25)
  @@ 25 :> Op("wait_load", 26)
  @@ 26 :> Timed("sleep", 2000, 30)
  @@ 30 :> OnFirst("fill", "input.search-input", 31)
  @@ 31 :> OnFirst("press", "input.search-input", 34)
  @@ 34 :> Timed("sleep", 10000, 36)
  @@ 36 :> OnFirst("all", ".source-card", 39)
  @@ 39 :> Br("ifn", "", 41, 60)
  @@ 41 :> OnFirst("click", ".source-card", 42)
  @@ 42 :> Timed("sleep", 1000, 44)
  @@ 44 :> Shot("/tmp/siftersearch-screenshots/40-paper-fix-dark.png", 48)
  @@ 48 :> Br("ifcount", ".source-paper", 49, 60)
  @@ 49 :> OnFirst("read_bg", ".source-paper", 50)
  @@ 50 :> OnFirst("read", ".source-text", 55)
  @@ 55 :> Op("verdict", 60)
  @@ 60 :> Op("close", 61)
  @@ 61 :> Say("complete", 0)

\* src/scripts/testing/test-study-view.py: the file has no function, its
\* statements run at module level
test_study_view ==
      8 :> Op("enter", 9)
  @@  9 :> Op("launch", 10)
  @@ 10 :> Op("new_page", 13)
  @@ 13 :> Op("goto", 14)
  @@ 14 :> Op("wait_load", 15)
  @@ 15 :> Timed("sleep", 3000, 18)
  @@ 18 :> Shot("{output_dir}/study-view-01-initial.png", 24)
  @@ 24 :> Br("ifcount", "button:has-text(Study)", 25, 36)
  @@ 25 :> OnFirst("click", "button:has-text(Study)", 26)
  @@ 26 :> Timed("sleep", 1500, 27)
  @@ 27 :> Shot("{output_dir}/study-view-02-study-mode.png", 31)
  @@ 31 :> Op("eval", 32)
  @@ 32 :> Timed("sleep", 500, 33)
  @@ 33 :> Shot("{output_dir}/study-view-03-scrolled.png", 52)
  @@ 36 :> Say("no_study_button", 39)
  @@ 39 :> Br("ifcount", ".menu-toggle, .view-menu-btn, [title*=View]", 40, 52)
  @@ 40 :> OnFirst("click", ".menu-toggle, .view-menu-btn, [title*=View]", 41)
  @@ 41 :> Timed("sleep", 500, 42)
  @@ 42 :> Shot("{output_dir}/study-view-02-menu-open.png", 46)
  @@ 46 :> Br("ifcount", "button:has-text(Study), .menu-item:has-text(Study)", 47, 52)
  @@ 47 :> OnFirst("click", "button:has-text(Study), .menu-item:has-text(Study)", 48)
  @@ 48 :> Timed("sleep", 1500, 49)
  @@ 49 :> Shot("{output_dir}/study-view-03-study-mode.png", 52)
  @@ 52 :> Op("close", 53)
  @@ 53 :> Say("complete", 0)

\* src/test-output/inspect_line_height.py, statements at module level; line
\* 20 is the head of the loop over all_buttons[:10], lines 24-25 and 36-37
\* are the except clauses
inspect_line_height ==
      8 :> Op("enter", 9)
  @@  9 :> Op("launch", 10)
  @@ 10 :> Op("new_page", 13)
  @@ 13 :> Op("goto", 14)
  @@ 14 :> Op("wait_load", 15)
  @@ 15 :> Timed("sleep", 3000, 18)
  @@ 18 :> OnFirst("all", "button", 20)
  @@ 20 :> Br("for", "", 22, 30)
  @@ 22 :> Try(OnLoop("read", "button", 20), 25)
  @@ 25 :> Op("pass", 20)
  @@ 30 :> Try(Br("ifcount", "button:has-text(SBS)", 32, 35), 37)
  @@ 32 :> Try(OnOnly("click", "button:has-text(SBS)", 33), 37)
  @@ 33 :> Try(Timed("sleep", 2000, 40), 37)
  @@ 35 :> Say("no_sbs_button", 40)
  @@ 37 :> Say("sbs_click_error", 40)
  @@ 40 :> Shot("{OUT_DIR}/sbs_view.png", 43)
  @@ 43 :> Op("page_read", 50)
  @@ 50 :> WriteFile("{OUT_DIR}/page.html", 54)
  @@ 54 :> Op("eval", 110)
  @@ 110 :> Op("close", 0)

\* src/test-output/debug_sbs.py
debug_sbs ==
      8 :> Op("enter", 9)
  @@  9 :> Op("launch", 10)
  @@ 10 :> Op("new_page", 15)
  @@ 15 :> Op("goto", 16)
  @@ 16 :> Timed("sleep", 5000, 19)
  @@ 19 :> Shot("test-output/page_debug.png", 23)
  @@ 23 :> Op("eval", 40)
  @@ 40 :> OnFirst("count", "button:has-text(SBS), button:has-text(Bilingual), button:has-text(Side)", 42)
  @@ 42 :> Op("close", 0)

\* src/tests/test_print_debug.py; lines 50 and 55 print the lists that the
\* handlers of lines 16 and 35 filled
test_print_study_debug ==
      8 :> Op("enter", 9)
  @@  9 :> Op("launch", 10)
  @@ 10 :> Op("new_page", 16)
  @@ 16 :> Op("on", 35)
  @@ 35 :> Op("on", 41)
  @@ 41 :> Op("goto", 42)
  @@ 42 :> Op("wait_load", 43)
  @@ 43 :> Timed("sleep", 3000, 46)
  @@ 46 :> Shot("tests/print_study_debug.png", 50)
  @@ 50 :> Say("console_logs", 55)
  @@ 55 :> Say("api_responses", 72)
  @@ 72 :> OnFirst("count", ".segment-row", 76)
  @@ 76 :> Br("ifcount", ".no-segments-notice", 77, 79)
  @@ 77 :> Say("no_segments_notice", 83)
  @@ 79 :> Say("no_notice", 83)
  @@ 83 :> OnFirst("count", ".paragraph-block", 85)
  @@ 85 :> Op("close", 86)
  @@ 86 :> Say("complete", 0)

Scripts == {"test_dark_mode", "test_highlighting", "test_highlighting_all",
            "verify_line_height", "test_mobile", "test_siftersearch",
            "test_read_more", "test_sbs_final", "test_production",
            "test_user_url", "test_print_study_view", "test_paper_fix",
            "test_study_view", "inspect_line_height", "debug_sbs",
            "test_print_study_debug"}

Prog(s) ==
  CASE s = "test_dark_mode"        -> test_dark_mode
    [] s = "test_highlighting"     -> test_highlighting
    [] s = "test_highlighting_all" -> test_highlighting_all
    [] s = "verify_line_height"    -> verify_line_height
    [] s = "test_mobile"           -> test_mobile
    [] s = "test_siftersearch"     -> test_siftersearch
    [] s = "test_read_more"        -> test_read_more
    [] s = "test_sbs_final"        -> test_sbs_final
    [] s = "test_production"       -> test_production
    [] s = "test_user_url"         -> test_user_url
    [] s = "test_print_study_view" -> test_print_study_view
    [] s = "test_paper_fix"        -> test_paper_fix
    [] s = "test_study_view"       -> test_study_view
    [] s = "inspect_line_height"   -> inspect_line_height
    [] s = "debug_sbs"             -> debug_sbs
    [] s = "test_print_study_debug" -> test_print_study_debug

\* the first statement the interpreter executes when the file is run
Entry(s) ==
  CASE s = "test_dark_mode"        -> 11
    [] s = "test_highlighting"     -> 90
    [] s = "test_highlighting_all" -> 89
    [] s = "test_mobile"           -> 10
    [] s = "test_siftersearch"     -> 15
    [] s = "test_read_more"        -> 11
    [] s = "test_paper_fix"        -> 11
    [] s = "test_print_study_view" -> 9
    [] OTHER                       -> 8

\* the first statement of the probe function, for a caller that imports the
\* file and calls the function: the __main__ block is not run
DirectEntry(s) == 12

\* scripts whose directory is created only in the __main__ block
DirectCallable == {"test_highlighting", "test_highlighting_all"}

\* the directory part of the paths a script writes to
OutDir(s) ==
  CASE s \in {"verify_line_height", "test_sbs_final", "test_production",
              "test_user_url", "debug_sbs"}  -> "test-output"
    [] s \in {"test_print_study_view", "test_print_study_debug"} -> "tests"
    [] s = "test_study_view"                 -> "{output_dir}"
    [] s = "inspect_line_height"             -> "{OUT_DIR}"
    [] OTHER                                 -> "/tmp/siftersearch-screenshots"

\* os.path.dirname(os.path.abspath(__file__)): the directory that holds the
\* script exists whenever the script runs
ScriptDirs == {"{output_dir}", "{OUT_DIR}"}

\* scripts whose __main__ block ends in exit(0 if success else 1)
ExitsByResult == {"test_highlighting", "test_highlighting_all", "test_print_study_view"}

(* ------------------------------------------------- values read from pages *)
\* computed line-height strings: three pixel values around the threshold of
\* 24 and the keyword a browser reports for an unset line-height
PxValues == {"18.4px", "24px", "30px"}

\* what the scripts' evaluate puts in place of a missing inner <p>
Missing(s) == IF s = "test_user_url" THEN "none" ELSE "N/A"

ParaVals(s) == [c : PxValues \cup {"normal"}, p : PxValues \cup {"normal", Missing(s)}]

LHLists(s) == UNION {[1..k -> ParaVals(s)] : k \in 0..MaxParas}

ValueError == -1

\* float(v.replace('px', '')) in tenths of a pixel; ValueError when the rest
\* is not a number
ParsePx(v) ==
  CASE v = "18.4px" -> 184
    [] v = "24px"   -> 240
    [] v = "30px"   -> 300
    [] OTHER        -> ValueError

TooLarge == 240

\* viewport={"width": 320, "height": 568}, and the 568 of line 61
ViewportHeight == 568

\* bounding boxes <<y, height>> of the stats card: bottom edges above, on
\* and below the lower edge of the viewport; <<>> is None
Boxes == {0, 283, 284} \X {284, 285}

BelowViewportInclusive(b) == b[1] + b[2] >= ViewportHeight

\* if bbox['y'] + bbox['height'] > 568:
BelowViewport(b) == b[1] + b[2] > ViewportHeight

\* computed font-size of the text in the translation column, in tenths of
\* a pixel: the 16px that the comment of verify_line_height.py line 77
\* assumes, and a larger one; the scripts do not read it
FontSizes == {160, 240}

\* body of the loop at verify_line_height.py:76-91 for one paragraph: TRUE
\* when it sets all_correct = False.  A ValueError anywhere in the try block
\* leaves the rest of the block unexecuted.
VerifyFlags(r) ==
  LET c == ParsePx(r.c)
      p == ParsePx(r.p)
  IN  IF c = ValueError THEN FALSE
      ELSE \/ c > TooLarge
           \/ r.p # "N/A" /\ p # ValueError /\ p > TooLarge

\* test_sbs_final.py:89-97
SbsFinalFlags(r) ==
  r.p # "N/A" /\ ParsePx(r.p) # ValueError /\ ParsePx(r.p) > TooLarge

\* test_production.py:82-89
ProductionFlags(r) ==
  ParsePx(r.p) # ValueError /\ ParsePx(r.p) > TooLarge

\* test_user_url.py:53-59
UserUrlFlags(r) ==
  r.p # "none" /\ ParsePx(r.p) # ValueError /\ ParsePx(r.p) > TooLarge

\* the channels of a computed colour "rgb(r, g, b)": the expected paper
\* colour, its channels in other positions, and other values
Channels == {0, 243, 248, 250}

Colours == [1..3 -> Channels]

\* "<x>" in bg_color, for the decimal numeral of a channel value x: the
\* numeral occurs in "rgb(r, g, b)" exactly when it is one of the channels
InString(x, bg) == \E k \in DOMAIN bg : bg[k] = x

RECURSIVE Sum(_)
Sum(q) == IF q = <<>> THEN 0 ELSE q[1] + Sum(Tail(q))

\* the ways m <mark> tags of a page can lie in the rec.n result cards and
\* outside them
PerCard(rec, m) ==
  IF rec.script = "test_highlighting_all"
  THEN {c \in [1..rec.n -> 0..m] : Sum(c) <= m}
  ELSE {<<>>}

\* what the summary section of a script prints, from the values it captured
VerdictOut(rec) ==
  LET lh == rec.lh
      idx == DOMAIN lh
  IN CASE rec.script = "test_highlighting" ->
            IF rec.marks > 0 THEN {"SUCCESS"} ELSE {"FAILURE"}
       [] rec.script = "test_highlighting_all" ->
            IF rec.marks >= rec.n THEN {"SUCCESS"}
            ELSE IF rec.marks > 0 THEN {"PARTIAL"} ELSE {"FAILURE"}
       [] rec.script = "verify_line_height" ->
            IF \A k \in idx : ~VerifyFlags(lh[k]) THEN {"SUCCESS"} ELSE {"TOO_LARGE"}
       [] rec.script = "test_sbs_final" ->
            LET good == \A k \in idx : ~SbsFinalFlags(lh[k])
            IN  (IF good THEN {} ELSE {"TOO_LARGE"})
                \cup (IF good /\ lh # <<>> THEN {"SUCCESS"}
                      ELSE IF lh = <<>> THEN {"NO_PARAS"} ELSE {})
       [] rec.script = "test_production" ->
            IF lh # <<>>
            THEN IF \A k \in idx : ~ProductionFlags(lh[k]) THEN {"SUCCESS"} ELSE {"TOO_LARGE"}
            ELSE {"NO_PARAS"}
       [] rec.script = "test_user_url" ->
            LET good == \A k \in idx : ~UserUrlFlags(lh[k])
            IN  IF good /\ lh # <<>> THEN {"SUCCESS"}
                ELSE IF lh = <<>> THEN {"NO_PARAS"} ELSE {}
       [] rec.script = "test_mobile" ->
            IF BelowViewport(rec.bbox) THEN {"EXTENDS"} ELSE {"FITS"}
       [] rec.script = "test_paper_fix" ->
            IF InString(250, rec.bg) /\ InString(248, rec.bg)
            THEN {"LIGHT"} ELSE {"NOT_LIGHT"}
       [] OTHER -> {}

\* the value of a return statement
ReturnValue(rec, st) ==
  CASE st.tag # "expr" -> st.tag
    [] rec.script = "test_highlighting" ->
         IF rec.marks > 0 THEN "True" ELSE "False"
    [] rec.script = "test_highlighting_all" ->
         IF rec.marks >= rec.n THEN "True" ELSE "False"

\* process exit status: an uncaught exception ends the interpreter with 1;
\* otherwise the __main__ block decides
ExitStatus(rec) ==
  IF rec.exc # "none" THEN 1
  ELSE IF rec.script \in ExitsByResult /\ ~rec.direct
       THEN (IF rec.ret = "True" THEN 0 ELSE 1)
       ELSE 0

(* ------------------------------------------------------------------ state *)
\* run[r]: one execution of a script as a process.
\*   phase   idle (no process), run (inside the script), unwind (leaving the
\*           with-block by return or by an exception), returned, ended
\*   pc      source line of the statement executed next; the line that
\*           raised, once an exception propagates
\*   pw      the sync_playwright() context; browser: the launched browser
\*   exc     the exception that propagates out of the script ("none": none)
\*   caught  exceptions that an except clause of the script handled
\*   dom     what the script has seen of the page since it last let time pass
\*   n, i, marks, lh, errA, errB   the script's local variables
\*   judged  the summary section of the script has run
\*   wres, wsel, wfix   the readiness wait in progress: outcome of the
\*           selector wait, time spent in it, time spent sleeping after it
\*   direct  the probe function was called by an importer, not by __main__
\*   shots   number of files the run has written
\*   perCard the <mark> tags inside each result card, of which the script
\*           sees only the page total (marks)
\*   bg      the channels of the computed background colour read
\*   fontPx  the font-size of the elements whose line-height was read
\*   bbox    the bounding box read, <<y, height>>; <<>> for None
\*   tries   number of fill, press and click calls made
\*   listening  a handler is registered on the current page
\*   events  what became of the events the page emitted while loading
\*   cardsNow  the .source-card elements in the page when page.content()
\*           was read, which the script does not count again
\* fs[p]: the run that last wrote file p (0: not written); dirs: directories
\* that exist; site: what the server answers to the navigation, the page
\* with a success status or an error page with an HTTP error status
NoRun ==
  [script |-> "none", phase |-> "idle", pc |-> 0, pw |-> "none", browser |-> "none",
   exc |-> "none", caught |-> {}, ret |-> "unset", exitCode |-> -1, out |-> {},
   written |-> {}, dom |-> {}, n |-> 0, i |-> 0, marks |-> 0, lh |-> <<>>,
   errA |-> FALSE, errB |-> FALSE, wres |-> "none", wsel |-> 0, wfix |-> 0,
   judged |-> FALSE, launches |-> 0, closes |-> 0, direct |-> FALSE,
   shots |-> 0, perCard |-> <<>>, bg |-> <<>>, fontPx |-> 0,
   bbox |-> <<>>, cardsNow |-> 0, listening |-> FALSE, events |-> "none",
   tries |-> 0]

Started(s) == [NoRun EXCEPT !.script = s, !.phase = "run", !.pc = Entry(s)]

Paths == UNION {{Prog(s)[l].path : l \in DOMAIN Prog(s)} : s \in Scripts} \ {""}

\* scripts started side by side on one machine
Pairs == {<<"test_siftersearch", "test_highlighting">>,
          <<"test_highlighting", "test_highlighting">>}

Init ==
  /\ fs = [p \in Paths |-> 0]
  /\ dirs = ScriptDirs
  /\ site \in {"ok", "http_error"}
  /\ \/ \E s \in Scripts : run = <<Started(s), NoRun>>
     \/ \E s \in DirectCallable :
          run = <<[Started(s) EXCEPT !.pc = DirectEntry(s), !.direct = TRUE], NoRun>>
     \/ \E pr \in Pairs : run = <<Started(pr[1]), Started(pr[2])>>

(* ---------------------------------------------------------------- helpers *)
Cur(r) == Prog(run[r].script)[run[r].pc]

At(r, o) == run[r].phase = "run" /\ Cur(r).op = o

Set(r, rec) == run' = [run EXCEPT ![r] = rec]

\* control passes to line ln; line 0 is the end of the function body
Go(rec, ln) ==
  IF ln = 0 THEN [rec EXCEPT !.phase = "unwind", !.ret = "None"]
  ELSE [rec EXCEPT !.pc = ln]

\* the statement st raises f: the enclosing except clause takes it, or it
\* propagates out of the with-block and the script
Raise(rec, st, f) ==
  IF st.exc # 0 THEN [rec EXCEPT !.pc = st.exc, !.caught = @ \cup {f}]
  ELSE [rec EXCEPT !.phase = "unwind", !.exc = f]

\* the page may change whenever the script waits or acts
Forget(rec) == [rec EXCEPT !.dom = {}]

Learn(rec, s, k) == [rec EXCEPT !.dom = @ \cup {<<s, k>>}]

\* how many elements selector s can match now
Obs(rec, s) ==
  LET seen == {q[2] : q \in {d \in rec.dom : d[1] = s}}
  IN  IF seen = {} THEN 0..MaxMatch ELSE seen

\* any statement other than a wait ends the readiness wait in progress
EndWait(rec) == [rec EXCEPT !.wres = "none", !.wsel = 0, !.wfix = 0]

\* index of the element a statement addresses: .first / [0] / .last of a
\* non-empty match, or the loop's current element
Index(rec, st) == IF st.nth = -1 THEN rec.i - 1 ELSE 0

Min(a, b) == IF a < b THEN a ELSE b

\* moments, in ms, at which a selector wait with timeout T can succeed
FoundAt(T) == {0, T \div 2, T}

\* a fallback sleep that lasts twice the duration written in the script
SleptTwice(rec, st) == IF rec.wres # "none" THEN rec.wfix + st.t + st.t ELSE rec.wfix

\* time a readiness wait has taken after sleeping st.t more
Slept(rec, st) == IF rec.wres # "none" THEN rec.wfix + st.t ELSE rec.wfix

(* ---------------------------------------------------------------- actions *)
\* os.makedirs(SCREENSHOTS_DIR, exist_ok=True)
Makedirs(r) ==
  /\ At(r, "makedirs")
  /\ Set(r, Go(run[r], Cur(r).nxt))
  /\ dirs' = dirs \cup {"/tmp/siftersearch-screenshots"}
  /\ UNCHANGED <<fs, site>>

\* with sync_playwright() as p:
Enter(r) ==
  /\ At(r, "enter")
  /\ Set(r, Go([run[r] EXCEPT !.pw = "active"], Cur(r).nxt))
  /\ UNCHANGED <<fs, dirs, site>>

\* browser = p.chromium.launch(headless=True)
Launch(r) ==
  /\ At(r, "launch")
  /\ \/ Set(r, Go([run[r] EXCEPT !.browser = "open", !.launches = @ + 1], Cur(r).nxt))
     \/ Set(r, Raise(run[r], Cur(r), "launch"))
  /\ UNCHANGED <<fs, dirs, site>>

\* page = browser.new_page(...)
NewPage(r) ==
  /\ At(r, "new_page")
  /\ Set(r, Go(Forget([run[r] EXCEPT !.listening = FALSE]), Cur(r).nxt))
  /\ UNCHANGED <<fs, dirs, site>>

\* page.on(event, handler)
On(r) ==
  /\ At(r, "on")
  /\ Set(r, Go([run[r] EXCEPT !.listening = TRUE], Cur(r).nxt))
  /\ UNCHANGED <<fs, dirs, site>>

\* scripts that collect console or network events in a list
Collects(s) == \E l \in DOMAIN Prog(s) : Prog(s)[l].op = "on"

\* the console and network events of a page load, for a script that
\* collects them: none emitted, or some, which reach the script's list
\* when a handler is registered on the page and are lost when none is
Emitted(rec) ==
  IF ~Collects(rec.script) \/ rec.events = "missed" THEN {rec.events}
  ELSE {rec.events, IF rec.listening THEN "heard" ELSE "missed"}

\* page.goto(url): returns when the page has loaded (whatever its HTTP
\* status), raises when the connection fails or the load times out
Goto(r) ==
  /\ At(r, "goto")
  /\ \/ \E e \in Emitted(run[r]) :
          Set(r, Go(Forget(EndWait([run[r] EXCEPT !.events = e])), Cur(r).nxt))
     \/ \E f \in {"nav_failed", "nav_timeout"} : Set(r, Raise(EndWait(run[r]), Cur(r), f))
  /\ UNCHANGED <<fs, dirs, site>>

\* page.wait_for_load_state(state): raises TimeoutError when the state is
\* not reached
WaitLoad(r) ==
  /\ At(r, "wait_load")
  /\ \/ Set(r, Go(Forget(EndWait(run[r])), Cur(r).nxt))
     \/ Set(r, Raise(Forget(EndWait(run[r])), Cur(r), "ready_timeout"))
  /\ UNCHANGED <<fs, dirs, site>>

\* page.wait_for_selector(sel, timeout=T): returns as soon as sel matches,
\* raises TimeoutError after T
WaitSel(r) ==
  LET st == Cur(r) IN
  /\ At(r, "wait_sel")
  /\ \/ \E k \in 1..MaxMatch, t \in FoundAt(st.t) :
          Set(r, Go([run[r] EXCEPT !.dom = {<<st.sel, k>>}, !.wres = "found",
                                   !.wsel = t, !.wfix = 0], st.nxt))
     \/ Set(r, Raise([run[r] EXCEPT !.dom = {<<st.sel, 0>>}, !.wres = "timeout",
                                    !.wsel = st.t, !.wfix = 0], st, "ready_timeout"))
  /\ UNCHANGED <<fs, dirs, site>>

\* time.sleep(s) / page.wait_for_timeout(ms)
Sleep(r) ==
  /\ At(r, "sleep")
  /\ Set(r, Go(Forget([run[r] EXCEPT !.wfix = Slept(run[r], Cur(r))]), Cur(r).nxt))
  /\ UNCHANGED <<fs, dirs, site>>

\* page.screenshot(path=...): the file is written, into a directory that
\* exists once the call has returned, or the call raises
Screenshot(r) ==
  LET st == Cur(r) IN
  /\ At(r, "shot")
  /\ \/ /\ Set(r, Go(Forget(EndWait([run[r] EXCEPT !.written = @ \cup {st.path},
                                                    !.shots = @ + 1])), st.nxt))
        /\ fs' = [fs EXCEPT ![st.path] = r]
        /\ dirs' = dirs \cup {OutDir(run[r].script)}
     \/ /\ Set(r, Raise(EndWait(run[r]), st, "io"))
        /\ UNCHANGED <<fs, dirs>>
  /\ UNCHANGED site

\* with open(path, 'w') as f: f.write(html)
Write(r) ==
  LET st == Cur(r) IN
  /\ At(r, "write")
  /\ \/ /\ OutDir(run[r].script) \in dirs
        /\ Set(r, Go(EndWait([run[r] EXCEPT !.written = @ \cup {st.path},
                                            !.shots = @ + 1]), st.nxt))
        /\ fs' = [fs EXCEPT ![st.path] = r]
     \/ /\ Set(r, Raise(EndWait(run[r]), st, "io"))
        /\ UNCHANGED fs
  /\ UNCHANGED <<dirs, site>>

\* a fill, press or click statement is one attempt at an interaction
Attempt(rec, st) ==
  IF st.op \in {"fill", "press", "click", "kpress"} THEN [rec EXCEPT !.tries = @ + 1] ELSE rec

\* a locator action (fill, press, click, or a read of the element): the
\* locator is resolved when the action runs; Playwright waits for the target
\* and raises TimeoutError when there is none, raises a strict-mode error
\* when a locator without .first/.nth matches several elements, and raises
\* when the element it found cannot be acted on
OnElement(r, fails) ==
  LET st == Cur(r)
      rec == EndWait(Attempt(run[r], st))
  IN  \E k \in Obs(rec, st.sel) :
        IF k <= Index(rec, st) THEN Set(r, Raise(Learn(rec, st.sel, k), st, "absent"))
        ELSE IF st.strict /\ k > 1 THEN Set(r, Raise(Learn(rec, st.sel, k), st, "strict"))
        ELSE \/ Set(r, Go(IF fails = {} THEN Learn(rec, st.sel, k) ELSE Forget(rec), st.nxt))
             \/ \E f \in fails : Set(r, Raise(Forget(rec), st, f))

Fill(r) ==
  /\ At(r, "fill")
  /\ OnElement(r, {"not_interactable"})
  /\ UNCHANGED <<fs, dirs, site>>

Press(r) ==
  /\ At(r, "press")
  /\ OnElement(r, {"not_interactable"})
  /\ UNCHANGED <<fs, dirs, site>>

ClickAgainOnFailure(r) ==
  /\ At(r, "click")
  /\ \/ OnElement(r, {"not_interactable"})
     \/ Set(r, Forget(Attempt(run[r], Cur(r))))
  /\ UNCHANGED <<fs, dirs, site>>

Click(r) ==
  /\ At(r, "click")
  /\ OnElement(r, {"not_interactable"})
  /\ UNCHANGED <<fs, dirs, site>>

\* text_content() / evaluate() / bounding_box() on a locator
Read(r) ==
  /\ At(r, "read")
  /\ OnElement(r, {})
  /\ UNCHANGED <<fs, dirs, site>>

\* bg_color = paper.evaluate("el => window.getComputedStyle(el).backgroundColor")
ReadBg(r) ==
  LET st == Cur(r)
      rec == EndWait(run[r])
  IN  /\ At(r, "read_bg")
      /\ \E k \in Obs(rec, st.sel) :
           IF k <= Index(rec, st) THEN Set(r, Raise(Learn(rec, st.sel, k), st, "absent"))
           ELSE \E c \in Colours : Set(r, Go([Learn(rec, st.sel, k) EXCEPT !.bg = c], st.nxt))
      /\ UNCHANGED <<fs, dirs, site>>

\* bbox = stats_card.bounding_box(): None when the element is not visible
ReadBbox(r) ==
  LET st == Cur(r)
      rec == EndWait(run[r])
  IN  /\ At(r, "read_bbox")
      /\ \E k \in Obs(rec, st.sel) :
           IF k <= Index(rec, st) THEN Set(r, Raise(Learn(rec, st.sel, k), st, "absent"))
           ELSE \E b \in Boxes \cup {<<>>} :
                  Set(r, Go([Learn(rec, st.sel, k) EXCEPT !.bbox = b], st.nxt))
      /\ UNCHANGED <<fs, dirs, site>>

\* if bbox:
IfBbox(r) ==
  /\ At(r, "ifbbox")
  /\ Set(r, Go(run[r], IF run[r].bbox # <<>> THEN Cur(r).nxt ELSE Cur(r).alt))
  /\ UNCHANGED <<fs, dirs, site>>

\* page.keyboard.press(key)
KPress(r) ==
  /\ At(r, "kpress")
  /\ Set(r, Go(Forget(EndWait(Attempt(run[r], Cur(r)))), Cur(r).nxt))
  /\ UNCHANGED <<fs, dirs, site>>

\* x = page.locator(sel).all(): never raises; len(x) may be 0
All(r) ==
  LET st == Cur(r)
      rec == EndWait(run[r])
  IN  /\ At(r, "all")
      /\ \E k \in Obs(rec, st.sel) : Set(r, Go(Learn([rec EXCEPT !.n = k], st.sel, k), st.nxt))
      /\ UNCHANGED <<fs, dirs, site>>

\* page.locator(sel).count(), only printed
Count(r) ==
  LET st == Cur(r)
      rec == EndWait(run[r])
  IN  /\ At(r, "count")
      /\ \E k \in Obs(rec, st.sel) : Set(r, Go(Learn(rec, st.sel, k), st.nxt))
      /\ UNCHANGED <<fs, dirs, site>>

\* range(min(3, locator.count()))
Range(r) ==
  LET st == Cur(r)
      rec == EndWait(run[r])
  IN  /\ At(r, "range")
      /\ \E k \in Obs(rec, st.sel) :
           Set(r, Go(Learn([rec EXCEPT !.n = Min(3, k), !.i = 0], st.sel, k), st.nxt))
      /\ UNCHANGED <<fs, dirs, site>>

\* a loop head that does not move on to the next element
ForNoAdvance(r) ==
  LET st == Cur(r)
      rec == run[r]
  IN  /\ At(r, "for")
      /\ IF rec.i < rec.n THEN Set(r, Go(Forget(rec), st.nxt))
         ELSE Set(r, Go(rec, st.alt))
      /\ UNCHANGED <<fs, dirs, site>>

\* head of a for loop over rec.n elements
For(r) ==
  LET st == Cur(r)
      rec == run[r]
  IN  /\ At(r, "for")
      /\ IF rec.i < rec.n THEN Set(r, Go(Forget([rec EXCEPT !.i = @ + 1]), st.nxt))
         ELSE Set(r, Go(rec, st.alt))
      /\ UNCHANGED <<fs, dirs, site>>

\* if len(x) > 0: / if x:
IfN(r) ==
  /\ At(r, "ifn")
  /\ Set(r, Go(run[r], IF run[r].n > 0 THEN Cur(r).nxt ELSE Cur(r).alt))
  /\ UNCHANGED <<fs, dirs, site>>

\* if locator.count() > 0:
IfCount(r) ==
  LET st == Cur(r)
      rec == EndWait(run[r])
  IN  /\ At(r, "ifcount")
      /\ \E k \in Obs(rec, st.sel) :
           Set(r, Go(Learn(rec, st.sel, k), IF k > 0 THEN st.nxt ELSE st.alt))
      /\ UNCHANGED <<fs, dirs, site>>

\* if locator.is_visible(): / if locator.count() > 0 and not
\* locator.is_disabled(): false when nothing matches, else as the element is
IfProp(r) ==
  LET st == Cur(r)
      rec == EndWait(run[r])
  IN  /\ At(r, "ifprop")
      /\ \E k \in Obs(rec, st.sel), b \in BOOLEAN :
           Set(r, Go(Learn(rec, st.sel, k), IF k > 0 /\ b THEN st.nxt ELSE st.alt))
      /\ UNCHANGED <<fs, dirs, site>>

\* if "stats-card" in html:
IfHtml(r) ==
  /\ At(r, "ifhtml")
  /\ \E b \in BOOLEAN : Set(r, Go(EndWait(run[r]), IF b THEN Cur(r).nxt ELSE Cur(r).alt))
  /\ UNCHANGED <<fs, dirs, site>>

\* page.text_content("body")
PageRead(r) ==
  /\ At(r, "page_read")
  /\ Set(r, Go(EndWait(run[r]), Cur(r).nxt))
  /\ UNCHANGED <<fs, dirs, site>>

\* page.evaluate(js) whose result is only printed
Eval(r) ==
  /\ At(r, "eval")
  /\ \/ Set(r, Go(EndWait(run[r]), Cur(r).nxt))
     \/ Set(r, Raise(EndWait(run[r]), Cur(r), "eval"))
  /\ UNCHANGED <<fs, dirs, site>>

\* line_heights = page.evaluate(js): one entry per .paragraph-text of the
\* translation columns
EvalLH(r) ==
  /\ At(r, "eval_lh")
  /\ \/ \E l \in LHLists(run[r].script), f \in FontSizes :
          Set(r, Go(EndWait([run[r] EXCEPT !.lh = l, !.fontPx = f]), Cur(r).nxt))
     \/ Set(r, Raise(EndWait(run[r]), Cur(r), "eval"))
  /\ UNCHANGED <<fs, dirs, site>>

\* the .source-card elements in the page whose content is read: what the
\* script last saw, if the page had no occasion to change since
CardsNow(rec) ==
  IF rec.script = "test_highlighting_all" THEN Obs(rec, ".source-card") ELSE {0}

\* html_content = page.content(); mark_count = html_content.count('<mark>')
ContentMarks(r) ==
  /\ At(r, "content_marks")
  /\ \E m \in 0..MaxMarks : \E c \in PerCard(run[r], m) : \E k \in CardsNow(run[r]) :
       Set(r, Go(EndWait([run[r] EXCEPT !.marks = m, !.perCard = c, !.cardsNow = k]),
                 Cur(r).nxt))
  /\ UNCHANGED <<fs, dirs, site>>

\* content = page.content(), of which "Error" in content and "error-state"
\* in content are used
ContentFlags(r) ==
  /\ At(r, "content_flags")
  /\ \E a \in BOOLEAN, b \in BOOLEAN :
       Set(r, Go(EndWait([run[r] EXCEPT !.errA = a, !.errB = b]), Cur(r).nxt))
  /\ UNCHANGED <<fs, dirs, site>>

\* if "Error" in content and "error-state" in content:
IfError(r) ==
  /\ At(r, "iferror")
  /\ Set(r, Go(run[r], IF run[r].errA /\ run[r].errB THEN Cur(r).nxt ELSE Cur(r).alt))
  /\ UNCHANGED <<fs, dirs, site>>

\* the summary section of a script
Verdict(r) ==
  /\ At(r, "verdict")
  /\ Set(r, Go([run[r] EXCEPT !.out = @ \cup VerdictOut(run[r]), !.judged = TRUE], Cur(r).nxt))
  /\ UNCHANGED <<fs, dirs, site>>

\* a print that reports an outcome
Report(r) ==
  /\ At(r, "print")
  /\ Set(r, Go([run[r] EXCEPT !.out = @ \cup {Cur(r).tag}], Cur(r).nxt))
  /\ UNCHANGED <<fs, dirs, site>>

\* except: pass
Pass(r) ==
  /\ At(r, "pass")
  /\ Set(r, Go(run[r], Cur(r).nxt))
  /\ UNCHANGED <<fs, dirs, site>>

\* browser.close()
Close(r) ==
  /\ At(r, "close")
  /\ Set(r, Go(EndWait([run[r] EXCEPT !.browser = "closed", !.closes = @ + 1]), Cur(r).nxt))
  /\ UNCHANGED <<fs, dirs, site>>

\* return <value>
Return(r) ==
  /\ At(r, "return")
  /\ Set(r, [run[r] EXCEPT !.phase = "unwind", !.ret = ReturnValue(run[r], Cur(r))])
  /\ UNCHANGED <<fs, dirs, site>>

\* a context exit that fails when the browser has been closed already
ExitContextOnceOnly(r) ==
  /\ run[r].phase = "unwind"
  /\ Set(r, [run[r] EXCEPT !.phase = "returned",
                           !.pw = IF @ = "active" THEN "stopped" ELSE @,
                           !.exc = IF run[r].browser = "closed" /\ @ = "none"
                                   THEN "already_closed" ELSE @])
  /\ UNCHANGED <<fs, dirs, site>>

\* leaving the with sync_playwright() block, by return or by exception: the
\* context manager stops the Playwright driver; no script calls
\* browser.close() here
ExitContext(r) ==
  /\ run[r].phase = "unwind"
  /\ Set(r, [run[r] EXCEPT !.phase = "returned",
                           !.pw = IF @ = "active" THEN "stopped" ELSE @])
  /\ UNCHANGED <<fs, dirs, site>>

\* the interpreter exits: exit(0 if success else 1), the end of the file, or
\* the traceback of an uncaught exception
ProcessExit(r) ==
  /\ run[r].phase = "returned"
  /\ Set(r, [run[r] EXCEPT !.phase = "ended", !.exitCode = ExitStatus(run[r])])
  /\ UNCHANGED <<fs, dirs, site>>

Next ==
  \E r \in Runs :
    \/ Makedirs(r) \/ Enter(r) \/ Launch(r) \/ NewPage(r) \/ On(r)
    \/ Goto(r) \/ WaitLoad(r) \/ WaitSel(r) \/ Sleep(r) \/ Screenshot(r)
    \/ Write(r) \/ Fill(r) \/ Press(r) \/ Click(r) \/ Read(r) \/ ReadBg(r) \/ KPress(r)
    \/ ReadBbox(r) \/ IfBbox(r)
    \/ All(r) \/ Count(r) \/ Range(r) \/ For(r)
    \/ IfN(r) \/ IfCount(r) \/ IfProp(r) \/ IfHtml(r) \/ IfError(r)
    \/ PageRead(r) \/ Eval(r) \/ EvalLH(r) \/ ContentMarks(r) \/ ContentFlags(r)
    \/ Verdict(r) \/ Report(r) \/ Pass(r) \/ Close(r) \/ Return(r)
    \/ ExitContext(r) \/ ProcessExit(r)

Spec == Init /\ [][Next]_vars

(* ----------------------------------------------------------------- claims *)
Ended(r) == run[r].phase = "ended"

Aborted(r) == run[r].phase \in {"unwind", "returned", "ended"} /\ run[r].exc # "none"

\* the statement whose exception aborted run r
RaisedBy(r) == Cur(r).op

\* C1: whenever a run has ended, on an exceptional path or not, the browser
\* it launched has been closed.
C1_BrowserClosedWhenRunEnds ==
  \A r \in Runs : Ended(r) => run[r].browser # "open"

\* C2: a readiness wait that times out (wait_for_load_state or
\* wait_for_selector) is recorded and never aborts the run.
C2_ReadinessTimeoutNotThrown ==
  \A r \in Runs : run[r].exc # "ready_timeout"

\* C3: a fill, click or key-press whose target is absent does not fail the
\* run.
C3_AbsentTargetDoesNotFailRun ==
  \A r \in Runs :
    Aborted(r) /\ run[r].exc = "absent" => RaisedBy(r) \notin {"fill", "press", "click"}

LineHeightScripts ==
  {"verify_line_height", "test_sbs_final", "test_production", "test_user_url"}

\* paragraphs of which the script's loop compared at least one value with
\* the threshold
Compared(rec) ==
  {k \in DOMAIN rec.lh :
     IF rec.script = "verify_line_height" THEN ParsePx(rec.lh[k].c) # ValueError
     ELSE ParsePx(rec.lh[k].p) # ValueError}

\* C4: a run that evaluated zero checks (no result card, no paragraph, or
\* no parsable value) prints no success verdict and does not exit 0.
C4_EmptyRunIsNotSuccess ==
  \A r \in Runs :
    /\ run[r].script = "test_highlighting_all" /\ run[r].judged /\ run[r].n = 0
         => "SUCCESS" \notin run[r].out /\ run[r].exitCode # 0
    /\ run[r].script \in LineHeightScripts /\ run[r].judged /\ Compared(run[r]) = {}
         => "SUCCESS" \notin run[r].out

\* a line-height value that fails the check: a pixel number above 24
OverThreshold(v) == ParsePx(v) # ValueError /\ ParsePx(v) > TooLarge

\* C5: in the line-height probes the success verdict is printed exactly
\* when no inspected paragraph has a container or inner <p> line-height
\* over the threshold, whatever unparsable values the list holds.
C5_SuccessIffEveryCheckPassed ==
  \A r \in Runs :
    run[r].script \in LineHeightScripts /\ run[r].judged =>
      ("SUCCESS" \in run[r].out <=>
         \A k \in DOMAIN run[r].lh :
           ~OverThreshold(run[r].lh[k].c) /\ ~OverThreshold(run[r].lh[k].p))

\* C6: exit status 0 on pass, 1 on a failed check, 2 on a harness-level
\* failure (launch failed or a harness step raised).
C6_ExitStatusMapping ==
  \A r \in Runs :
    Ended(r) /\ run[r].script \in ExitsByResult =>
      run[r].exitCode = (IF run[r].exc # "none" THEN 2
                         ELSE IF run[r].ret = "True" THEN 0 ELSE 1)

\* C7: resolving a selector (all, count) never raises, and no read of an
\* element's content raises because the element is absent.
C7_ResolutionAndReadsNeverRaise ==
  \A r \in Runs :
    Aborted(r) =>
      /\ RaisedBy(r) \notin {"all", "count", "range", "ifcount", "ifprop"}
      /\ run[r].exc = "absent" => RaisedBy(r) # "read"

\* C8: once the selector wait of a readiness wait has succeeded, no fixed
\* wait is added to it.
C8_NoFixedWaitAfterSelectorFound ==
  \A r \in Runs : run[r].wres = "found" => run[r].wfix = 0

\* the selector-wait timeouts of script s
SelTimeouts(s) == {Prog(s)[l].t : l \in {m \in DOMAIN Prog(s) : Prog(s)[m].op = "wait_sel"}}

\* C9: a readiness wait tries the selector wait first, the selector wait
\* takes at most its timeout, and [selector-wait(T1), fixed-wait(D2)] takes
\* at most T1 + D2 on every path (test-mobile.py:35,40 and
\* test_sbs_final.py:21,26).
C9_WaitWithinSumOfTimeouts ==
  \A r \in Runs :
    LET rec == run[r] IN
    /\ rec.wres = "none" => rec.wsel = 0 /\ rec.wfix = 0
    /\ rec.wres # "none" =>
         /\ \E T \in SelTimeouts(rec.script) : rec.wsel <= T
         /\ rec.script = "test_mobile" =>
              rec.wsel + rec.wfix <= test_mobile[35].t + test_mobile[40].t
         /\ rec.script = "test_sbs_final" =>
              rec.wsel + rec.wfix <= test_sbs_final[21].t + test_sbs_final[26].t

\* the worst case of test-mobile.py: the selector wait timed out and the
\* fallback sleep has run
C9_Witness ==
  \E r \in Runs :
    /\ run[r].script = "test_mobile"
    /\ run[r].wres = "timeout"
    /\ run[r].wsel + run[r].wfix = 12000

\* C10: two runs executing side by side write disjoint sets of evidence
\* files.
C10_EvidencePathsDisjoint ==
  \A r1 \in Runs, r2 \in Runs :
    r1 # r2 => run[r1].written \cap run[r2].written = {}

\* C11: within one run no evidence file is written twice: on every control
\* path the files written are as many as the writes made.
C11_NoPathWrittenTwice ==
  \A r \in Runs : run[r].shots = Cardinality(run[r].written)

\* a run that took the else-branch of test-study-view.py and wrote its
\* three files
C11_Witness ==
  \E r \in Runs :
    /\ run[r].script = "test_study_view"
    /\ "{output_dir}/study-view-03-study-mode.png" \in run[r].written
    /\ run[r].shots = 3

\* C12: a failing check does not stop the checks after it: a run that
\* reported an error state, a missing button or a missing column, and then
\* ended without an exception, has evaluated the later checks as well (the
\* QR-code check of test_print_view.py, the line-height summary of
\* verify_line_height.py).
C12_FailedCheckDoesNotStopLaterChecks ==
  \A r \in Runs :
    Ended(r) /\ run[r].exc = "none" =>
      /\ (run[r].script = "test_print_study_view" /\ "ERROR_STATE" \in run[r].out
            => run[r].out \cap {"qr_yes", "qr_no"} # {})
      /\ (run[r].script = "verify_line_height"
            /\ run[r].out \cap {"no_sbs_button", "no_translation_col"} # {}
            => run[r].judged)

\* what the except clauses of the scripts print about a failed interaction
FailureReports == {"could_not_expand", "sbs_click_error"}

\* C13: an interaction that fails (its element missing, ambiguous, or not
\* interactable) is reported: a run in which an except clause handled the
\* failure of a click, fill or read has one of the failure reports in its
\* output when it ends.
C13_InteractionFailureReported ==
  \A r \in Runs :
    Ended(r) /\ run[r].caught \cap {"absent", "strict", "not_interactable"} # {}
      => run[r].out \cap FailureReports # {}

\* C14: a navigation that returned a page served with an HTTP error status
\* is not treated as a successful navigation: a run against such a server
\* that ends without an exception has reported the status or exits with a
\* status other than 0.
C14_HttpErrorNotTreatedAsSuccess ==
  \A r \in Runs :
    Ended(r) /\ site = "http_error" /\ run[r].exc = "none"
      => "http_error" \in run[r].out \/ run[r].exitCode # 0

\* C15: on every control path that no exception leaves, early returns
\* included, one browser has been launched and browser.close() has been
\* called once when the function returns.
C15_OneLaunchOneCloseOnNormalPaths ==
  \A r \in Runs :
    run[r].phase \in {"unwind", "returned", "ended"} /\ run[r].exc = "none"
      => run[r].launches = 1 /\ run[r].closes = 1 /\ run[r].browser = "closed"

\* verify_line_height.py returned early because the SBS button was missing
C15_Witness ==
  \E r \in Runs :
    /\ run[r].script = "verify_line_height"
    /\ run[r].phase = "returned"
    /\ run[r].exc = "none"
    /\ "no_sbs_button" \in run[r].out

C17_DirectoryExistsBeforeWrite ==
  \A r \in Runs :
    At(r, "shot") \/ At(r, "write") => OutDir(run[r].script) \in dirs

\* the loop of a script: the line of its head and the line reached when it
\* is over (0: the script has no loop)
LoopHead(s) ==
  LET hs == {l \in DOMAIN Prog(s) : Prog(s)[l].op = "for"}
  IN  IF hs = {} THEN 0 ELSE CHOOSE l \in hs : TRUE

LoopExit(s) == IF LoopHead(s) = 0 THEN 0 ELSE Prog(s)[LoopHead(s)].alt

\* position of a statement in the order of execution: the makedirs of a
\* __main__ block stands after the function in the file and runs first
Pos(rec) == IF Prog(rec.script)[rec.pc].op = "makedirs" THEN 0 ELSE rec.pc

\* a bound on the passes through the loop head still to come: the size of
\* the largest collection before the loop is reached, the elements not yet
\* visited at the head, that and the current one inside the body
PassesLeft(rec) ==
  LET h == LoopHead(rec.script)
      e == LoopExit(rec.script)
  IN  IF h = 0 \/ Pos(rec) >= e THEN 0
      ELSE IF Pos(rec) < h THEN MaxMatch + 1
      ELSE IF Pos(rec) = h THEN rec.n - rec.i
      ELSE rec.n - rec.i + 1

\* a bound on the number of steps a run still takes
Rank(rec) ==
  CASE rec.phase = "run"      -> 3 + 1000 * PassesLeft(rec) + (1000 - Pos(rec))
    [] rec.phase = "unwind"   -> 2
    [] rec.phase = "returned" -> 1
    [] OTHER                  -> 0

\* C18: every run terminates: a run that has not ended always has a next
\* step (no step blocks for ever), and each step lowers a bound on the
\* steps still to come, which the loops respect because each runs over a
\* collection whose length was fixed before the loop.
C18_EveryRunTerminates ==
  /\ []((\A r \in Runs : run[r].phase \in {"idle", "ended"}) \/ ENABLED Next)
  /\ [][\A r \in Runs : run'[r] # run[r] =>
          Rank(run'[r]) < Rank(run[r]) /\ Rank(run'[r]) >= 0]_vars

\* test_highlight_all.py found no result card and still ran to its summary
\* and its end
C18_Witness ==
  \E r \in Runs :
    /\ run[r].script = "test_highlighting_all"
    /\ Ended(r)
    /\ run[r].n = 0
    /\ run[r].judged

\* C19: test_highlighting_all returns True, and the script exits with 0,
\* only if every result card holds a <mark>: when some card holds none, the
\* result is False and the exit status is 1.
C19_TrueOnlyIfEveryCardMarked ==
  \A r \in Runs :
    /\ run[r].script = "test_highlighting_all"
    /\ Ended(r) /\ run[r].exc = "none" /\ ~run[r].direct
    /\ \E k \in DOMAIN run[r].perCard : run[r].perCard[k] = 0
    => run[r].ret = "False" /\ run[r].exitCode = 1

\* C20: the paper-colour probe reports the background as light exactly
\* when the computed colour is rgb(250, 248, 243), and as not light for
\* every other colour.
C20_LightIffExpectedColour ==
  \A r \in Runs :
    run[r].script = "test_paper_fix" /\ run[r].judged =>
      /\ "LIGHT" \in run[r].out <=> run[r].bg = <<250, 248, 243>>
      /\ "NOT_LIGHT" \in run[r].out <=> run[r].bg # <<250, 248, 243>>

\* a line-height value within 1.25 times the font-size f (both in tenths
\* of a pixel); a value that is no pixel number is not judged
WithinRatio(v, f) == ParsePx(v) = ValueError \/ 4 * ParsePx(v) <= 5 * f

\* C21: the line-height probes print the success verdict exactly when every
\* inspected element has a line-height of at most 1.25 times its font-size.
C21_AcceptIffWithinRatioOfFontSize ==
  \A r \in Runs :
    run[r].script \in LineHeightScripts /\ run[r].judged /\ Compared(run[r]) # {} =>
      ("SUCCESS" \in run[r].out <=>
         \A k \in DOMAIN run[r].lh :
           WithinRatio(run[r].lh[k].c, run[r].fontPx)
             /\ WithinRatio(run[r].lh[k].p, run[r].fontPx))

\* C22: in the 320x568 probe the stats card is reported as fitting exactly
\* when the bottom edge y + height of its bounding box is at most 568 and
\* as extending below the viewport exactly when it is more; without a card
\* or without a bounding box neither is reported and a warning of its own
\* is printed.
C22_FitsIffBottomWithinViewport ==
  \A r \in Runs :
    run[r].script = "test_mobile" /\ run[r].phase = "run" /\ run[r].pc = 71 =>
      LET b == run[r].bbox
          o == run[r].out
      IN  /\ "FITS" \in o <=> b # <<>> /\ b[1] + b[2] <= 568
          /\ "EXTENDS" \in o <=> b # <<>> /\ b[1] + b[2] > 568
          /\ b = <<>> => o \cap {"null_bbox", "stats_not_found"} # {}
          /\ b # <<>> => o \cap {"null_bbox", "stats_not_found"} = {}

\* the card's bottom edge lies exactly on the lower edge of the viewport
C22_Witness ==
  \E r \in Runs :
    /\ run[r].script = "test_mobile" /\ run[r].phase = "run" /\ run[r].pc = 71
    /\ run[r].bbox = <<284, 284>>
    /\ "FITS" \in run[r].out

\* C23: an indexed or single-element access is made only on a collection
\* that fits it, so none ever fails because the collection is empty, the
\* index is not below the count, or a locator without .first matches
\* several elements: no run has raised for either reason, handled or not.
C23_AccessFitsCardinality ==
  \A r \in Runs :
    /\ run[r].exc \notin {"absent", "strict"}
    /\ run[r].caught \cap {"absent", "strict"} = {}

\* C24: nothing is done with the browser, a page or a locator after
\* browser.close(): the statements a run executes once its browser is
\* closed are prints and returns of values captured before.
C24_NoOperationAfterClose ==
  \A r \in Runs :
    run[r].phase = "run" /\ run[r].browser = "closed" => Cur(r).op \in {"print", "return"}

\* test-ui.py has closed its browser and goes on to print its report
C24_Witness ==
  \E r \in Runs :
    /\ run[r].script = "test_siftersearch"
    /\ run[r].phase = "run" /\ run[r].browser = "closed"
    /\ run[r].pc = 70

\* C25: a count used in a check is the count on the page at the time of
\* the check: the number of cards that test_highlighting_all compares with
\* the mark count is the number of cards in the page it read the marks
\* from, and the report of test-read-more.py about the reader modal after
\* Escape agrees with a count taken after the key press.
C25_ChecksUseCurrentPageState ==
  \A r \in Runs :
    /\ run[r].script = "test_highlighting_all" /\ run[r].judged
         => run[r].n = run[r].cardsNow
    /\ run[r].script = "test_read_more" /\ run[r].phase = "run"
         => /\ run[r].pc = 103 => <<".reader-modal", 0>> \in run[r].dom
            /\ run[r].pc = 105 => <<".reader-modal", 0>> \notin run[r].dom

\* C26: a script that collects console or network events registers its
\* handler before the first navigation, so no event that the page emits
\* from goto on is missing from the list the script reports.
C26_HandlerRegisteredBeforeNavigation ==
  \A r \in Runs : run[r].events # "missed"

\* C27: in test_print_study_view only the error-state check decides the
\* verdict: a run that got as far as that check returns False and exits
\* with 1 exactly when the content held both "Error" and "error-state",
\* and returns True and exits with 0 otherwise, whatever the later
\* observations are.
C27_OnlyErrorStateDecidesVerdict ==
  \A r \in Runs :
    run[r].script = "test_print_study_view" /\ Ended(r) /\ run[r].pc >= 33 =>
      LET err == run[r].errA /\ run[r].errB
      IN  /\ err <=> run[r].ret = "False" /\ run[r].exitCode = 1
          /\ ~err => run[r].ret = "True" /\ run[r].exitCode = 0

\* the interaction statements of a script outside its loop, and inside it
Interactions(s, inLoop) ==
  {l \in DOMAIN Prog(s) :
     /\ Prog(s)[l].op \in {"fill", "press", "click", "kpress"}
     /\ (Prog(s)[l].nth = -1) = inLoop}

\* C28: no interaction is retried: a run makes at most one attempt for each
\* fill, press and click statement outside a loop and one per resolved
\* element for a statement inside the loop; test_highlighting_all has made
\* its fill, its press and exactly one click per resolved card when it
\* comes to its verdict, whether or not a click raised.
C28_NoInteractionRetried ==
  \A r \in Runs :
    run[r].script \in Scripts =>
      /\ run[r].tries <= Cardinality(Interactions(run[r].script, FALSE))
                          + run[r].n * Cardinality(Interactions(run[r].script, TRUE))
      /\ run[r].script = "test_highlighting_all" /\ run[r].judged
           => run[r].tries = 2 + run[r].n

\* test_highlighting_all resolved two cards, a click on one of them raised
\* and was handled, and the run came to its verdict
C28_Witness ==
  \E r \in Runs :
    /\ run[r].script = "test_highlighting_all" /\ run[r].judged
    /\ run[r].n = 2
    /\ "not_interactable" \in run[r].caught
    /\ run[r].tries = 4

====
